---------------------------- MODULE Spec2Model ----------------------------
(***************************************************************************)
(* Model of cheind/diffusion-models:                                       *)
(*   - diffusion/examples/toy_matching.py : scores_rect2d and              *)
(*     integrate_scores_rect2d (the conservative-field integrator);        *)
(*   - diffusion/losses.py : ism_loss, ism_loss_fast, dsm_loss, ncsm_loss  *)
(*     and the ISMLoss / DSMLoss / NCSMLoss wrappers.                      *)
(* Tensor entries are exact rationals <<n, d>>; a zero denominator encodes *)
(* the IEEE specials a tensor division produces (<<1,0>> = inf,            *)
(* <<-1,0>> = -inf, <<0,0>> = nan).  Floating-point rounding is not        *)
(* modelled.                                                               *)
(***************************************************************************)
EXTENDS Integers, Sequences, FiniteSets, TLC

VARIABLES
    \* ---- integrate_scores_rect2d: arguments
    scoresArg, xlim, ylim, n_x, n_y, c,
    \* ---- integrate_scores_rect2d: locals and control
    pc, scores, hx, hy, tx, ty, u, ix, iy, err,
    \* ---- integrate_scores_rect2d: history of the loop (writes per cell,
    \*      cells read so far, whether a read cell was written afterwards or
    \*      a cell was read before its write)
    writes, reads, hazard,
    \* ---- losses: arguments, random draws, control and result
    fn, score_model, x, sigma, sigmae, noise, ids, tr, lpc, ret, lerr

iargs == <<scoresArg, xlim, ylim, n_x, n_y, c>>
ilocals == <<pc, scores, hx, hy, tx, ty, u, ix, iy, err>>
ihist == <<writes, reads, hazard>>
ivars == <<iargs, ilocals, ihist>>
largs == <<score_model, x, sigma, sigmae, noise>>
lvars == <<fn, largs, ids, tr, lpc, ret, lerr>>
vars == <<ivars, lvars>>

---------------------------------------------------------------------------
(* Bounds of the model *)

\* grid sizes n_x, n_y range over 0..MaxN
MaxN == 3
\* input dimensionality D ranges over 1..MaxD
MaxD == 3
\* batch size B ranges over 0..MaxB
MaxB == 2
\* noise schedules have 1..MaxK levels
MaxK == 2

---------------------------------------------------------------------------
(* Exact arithmetic on tensor entries *)

Abs(a) == IF a < 0 THEN -a ELSE a

Sign(a) == IF a < 0 THEN -1 ELSE IF a > 0 THEN 1 ELSE 0

RECURSIVE Gcd(_, _)
Gcd(a, b) == IF b = 0 THEN a ELSE Gcd(b, a % b)

\* the canonical representative of n/d
Norm(n, d) ==
    IF d = 0 THEN <<Sign(n), 0>>
    ELSE LET g == Gcd(Abs(n), Abs(d))
             s == Sign(d)
         IN  <<(s * n) \div g, (s * d) \div g>>

R(n) == <<n, 1>>
NaN == <<0, 0>>
IsFinite(a) == a[2] # 0
IsNaN(a) == a = NaN

RAdd(a, b) ==
    IF IsFinite(a) /\ IsFinite(b)
      THEN LET g == Gcd(a[2], b[2])
           IN  Norm(a[1] * (b[2] \div g) + b[1] * (a[2] \div g), (a[2] \div g) * b[2])
    ELSE IF IsNaN(a) \/ IsNaN(b) THEN NaN
    ELSE IF IsFinite(a) THEN b
    ELSE IF IsFinite(b) THEN a
    ELSE IF a = b THEN a ELSE NaN

RNeg(a) == <<-a[1], a[2]>>

RSub(a, b) == RAdd(a, RNeg(b))

\* inf * 0 = nan, inf * inf = inf: Norm of the product of the parts
RMul(a, b) ==
    IF IsFinite(a) /\ IsFinite(b)
      THEN LET g1 == Gcd(Abs(a[1]), b[2])
               g2 == Gcd(Abs(b[1]), a[2])
           IN  Norm((a[1] \div g1) * (b[1] \div g2), (a[2] \div g2) * (b[2] \div g1))
      ELSE Norm(a[1] * b[1], a[2] * b[2])

\* tensor division: x / 0 is +-inf, 0 / 0 is nan, x / inf is 0
RDiv(a, b) ==
    IF IsNaN(a) \/ IsNaN(b) THEN NaN
    ELSE IF ~IsFinite(a) /\ ~IsFinite(b) THEN NaN
    ELSE Norm((IF b[1] < 0 THEN -1 ELSE 1) * a[1] * b[2], a[2] * Abs(b[1]))

Half == <<1, 2>>

RECURSIVE RSum(_, _)
\* sum of f[i] for i in 1..n
RSum(f, n) == IF n = 0 THEN R(0) ELSE RAdd(RSum(f, n - 1), f[n])

---------------------------------------------------------------------------
(* toy_matching.py: the score fields handed to the integrator *)

\* extents (xlim, ylim): tuples of two numbers
Extents == {<<-1, 1>>, <<0, 3>>}

\* integration constants
Seeds == {0, 1, 2}

\* A tensor argument: the field a0 + a1*ix + a2*iy + a3*ix*iy (x component),
\* b0 + b1*ix + b2*iy + b3*ix*iy (y component) over the grid indices.  On a
\* 2 x 2 grid every field has this form.
TensorCoefs ==
    {<<a0, a1, a2, a3, 0, b1, b2, b3>> :
        a0 \in {1}, a1 \in {0, 1}, a2 \in {0, 1}, a3 \in {0, -1},
        b1 \in {0, 1}, b2 \in {0, 2}, b3 \in {0, 1}}

\* A score model argument: f(x, y) = (p0 + px*x + py*y + pxy*x*y,
\*                                    q0 + qx*x + qy*y + qxx*x*x)
ModelCoefs ==
    { <<0, 2, 0, 0, 0, 0, 2, 0>>,     \* gradient of x^2 + y^2
      <<0, 2, 1, 0, 0, 1, 2, 0>>,     \* gradient of x^2 + x*y + y^2
      <<0, 0, 0, 2, 0, 0, 0, 1>>,     \* gradient of x^2 * y
      <<0, 0, -1, 0, 0, 1, 0, 0>>,    \* rotation (-y, x): not a gradient
      <<1, 0, 0, 0, 1, 0, 1, 0>> }    \* gradient of x + y + y^2 / 2

ScoreArgs ==
    [kind : {"tensor"}, coef : TensorCoefs] \cup [kind : {"model"}, coef : ModelCoefs]

is_tensor(s) == s.kind = "tensor"

\* the tensor of shape (ny, nx, 2) a tensor argument stands for
TensorField(coef, ny, nx) ==
    [i \in 0..(ny - 1) |-> [j \in 0..(nx - 1) |->
        << R(coef[1] + coef[2] * j + coef[3] * i + coef[4] * i * j),
           R(coef[5] + coef[6] * j + coef[7] * i + coef[8] * i * j) >>]]

\* the score model applied to one point (px, py)
score_model_2d(coef, px, py) ==
    << RAdd(RAdd(R(coef[1]), RMul(R(coef[2]), px)),
            RAdd(RMul(R(coef[3]), py), RMul(R(coef[4]), RMul(px, py)))),
       RAdd(RAdd(R(coef[5]), RMul(R(coef[6]), px)),
            RAdd(RMul(R(coef[7]), py), RMul(R(coef[8]), RMul(px, px)))) >>

\* torch.linspace(lim[0], lim[1], n)[i]
linspace(lim, n, i) ==
    IF n = 1 THEN R(lim[1])
    ELSE RAdd(R(lim[1]), RMul(R(i), Norm(lim[2] - lim[1], n - 1)))

\* UV.view(-1, 2) of a grid without points cannot be formed
scores_rect2d_raises(ny, nx) == ny * nx = 0

scores_rect2d(coef, xl, yl, nx, ny) ==
    [i \in 0..(ny - 1) |-> [j \in 0..(nx - 1) |->
        score_model_2d(coef, linspace(xl, nx, j), linspace(yl, ny, i))]]

---------------------------------------------------------------------------
(* toy_matching.py: integrate_scores_rect2d *)

\* mutant: the division yields inf instead of raising
PyDivRaises_Never(b) == FALSE

\* Python's a / b on numbers raises ZeroDivisionError for b = 0
PyDivRaises(b) == b = R(0)

\* mutant: the extent divided by the number of points
Spacing_OverCount(lim, n) == Norm(lim[2] - lim[1], n)

\* (lim[1] - lim[0]) / (n - 1)
Spacing(lim, n) == Norm(lim[2] - lim[1], n - 1)

\* mutant: the rectangle rule, the left value only
TxOf_Rectangle(s, ny, nx, h) ==
    [i \in 0..(ny - 1) |-> [j \in 0..(nx - 2) |-> RMul(s[i][j][1], h)]]

\* tx = 0.5 * (scores[:, 1:, 0] + scores[:, :-1, 0]) * hx
TxOf(s, ny, nx, h) ==
    [i \in 0..(ny - 1) |-> [j \in 0..(nx - 2) |->
        RMul(RMul(Half, RAdd(s[i][j + 1][1], s[i][j][1])), h)]]

\* ty = 0.5 * (scores[1:, :, 1] + scores[:-1, :, 1]) * hy
TyOf(s, ny, nx, h) ==
    [i \in 0..(ny - 2) |-> [j \in 0..(nx - 1) |->
        RMul(RMul(Half, RAdd(s[i + 1][j][2], s[i][j][2])), h)]]

new_zeros(ny, nx) == [i \in 0..(ny - 1) |-> [j \in 0..(nx - 1) |-> R(0)]]

\* mutant: line 101 reads the cell below in the next column
ColSrc_NextColumn(i, j) == <<i - 1, (j + 1) % n_x>>

\* the cell line 99 reads, and the one line 101 reads
RowSrc(j) == <<0, j - 1>>
ColSrc(i, j) == <<i - 1, j>>

\* mutant: the bottom row accumulates the increments of the top row
RowValue_TopRow(j) == RAdd(tx[n_y - 1][j - 1], u[0][j - 1])

\* u[0, ix] = tx[0, ix - 1] + u[0, ix - 1]
RowValue(j) == RAdd(tx[0][j - 1], u[RowSrc(j)[1]][RowSrc(j)[2]])

\* u[iy, ix] = ty[iy - 1, ix] + u[iy - 1, ix]
ColValue(i, j) == RAdd(ty[i - 1][j], u[ColSrc(i, j)[1]][ColSrc(i, j)[2]])

\* history: a read of `src` followed by a write of `dst`
NoteRead(src) == reads \cup {src}
NoteHazard(src, dst) ==
    hazard \/ writes[src[1]][src[2]] = 0 \/ dst \in NoteRead(src)

Fail(e) ==
    /\ pc' = "error" /\ err' = e
    /\ UNCHANGED <<iargs, scores, hx, hy, tx, ty, u, ix, iy, ihist>>

\* lines 83-96: evaluate the model if needed, allocate u, the spacings, the
\* trapezoidal increments, the seed; the loops start at ix = 0, whose bottom
\* row cell is the seed
Enter ==
    /\ pc = "ready"
    /\ IF ~is_tensor(scoresArg) /\ scores_rect2d_raises(n_y, n_x)
         THEN Fail("RuntimeError")
       ELSE IF PyDivRaises(R(n_x - 1)) \/ PyDivRaises(R(n_y - 1))
         THEN Fail("ZeroDivisionError")
       ELSE IF n_y = 0 \/ n_x = 0
         THEN Fail("IndexError")
       ELSE LET s == IF is_tensor(scoresArg)
                       THEN TensorField(scoresArg.coef, n_y, n_x)
                       ELSE scores_rect2d(scoresArg.coef, xlim, ylim, n_x, n_y)
                h1 == Spacing(xlim, n_x)
                h2 == Spacing(ylim, n_y)
            IN  /\ scores' = s
                /\ hx' = h1 /\ hy' = h2
                /\ tx' = TxOf(s, n_y, n_x, h1)
                /\ ty' = TyOf(s, n_y, n_x, h2)
                /\ u' = [new_zeros(n_y, n_x) EXCEPT ![0][0] = c]
                /\ writes' = [i \in 0..(n_y - 1) |-> [j \in 0..(n_x - 1) |->
                                 IF i = 0 /\ j = 0 THEN 1 ELSE 0]]
                /\ ix' = 0 /\ iy' = 1
                /\ pc' = IF n_y > 1 THEN "loop" ELSE "row"
                /\ UNCHANGED <<iargs, err, reads, hazard>>
    /\ UNCHANGED lvars

\* line 97-99: the next column; its bottom row cell first
StepRow ==
    /\ pc = "row"
    /\ IF ix + 1 < n_x
         THEN /\ ix' = ix + 1
              /\ u' = [u EXCEPT ![0][ix + 1] = RowValue(ix + 1)]
              /\ writes' = [writes EXCEPT ![0][ix + 1] = @ + 1]
              /\ reads' = NoteRead(RowSrc(ix + 1))
              /\ hazard' = NoteHazard(RowSrc(ix + 1), <<0, ix + 1>>)
              /\ iy' = 1
              /\ pc' = IF n_y > 1 THEN "loop" ELSE "row"
         ELSE /\ pc' = "done"
              /\ UNCHANGED <<ix, iy, u, ihist>>
    /\ UNCHANGED <<iargs, scores, hx, hy, tx, ty, err>>
    /\ UNCHANGED lvars

\* lines 100-101: one cell of column ix
StepCol ==
    /\ pc = "loop"
    /\ u' = [u EXCEPT ![iy][ix] = ColValue(iy, ix)]
    /\ writes' = [writes EXCEPT ![iy][ix] = @ + 1]
    /\ reads' = NoteRead(ColSrc(iy, ix))
    /\ hazard' = NoteHazard(ColSrc(iy, ix), <<iy, ix>>)
    /\ IF iy + 1 < n_y
         THEN iy' = iy + 1 /\ pc' = "loop"
         ELSE iy' = iy /\ pc' = "row"
    /\ UNCHANGED <<iargs, scores, hx, hy, tx, ty, ix, err>>
    /\ UNCHANGED lvars

NextI == Enter \/ StepRow \/ StepCol

---------------------------------------------------------------------------
(* The score models, batches and random draws handed to the losses *)

\* A score model applied to one row r of width D:
\*   f_i(r) = w * r[i] + v * r[next(i)] + q * r[i]^2 + b    (next wraps around)
\* and, conditioned on a noise level index id, f_i(r, id) = f_i(r) + t * id.
ScoreModels ==
    { [w |-> 1, v |-> 0, q |-> 0, b |-> 0, t |-> 0],
      [w |-> -1, v |-> 1, q |-> 0, b |-> 1, t |-> 1],
      [w |-> 2, v |-> -1, q |-> 1, b |-> 0, t |-> 1] }

Nxt(i, D) == (i % D) + 1

score_model_apply(m, r, D) ==
    [i \in 1..D |->
        RAdd(RAdd(RMul(R(m.w), r[i]), RMul(R(m.v), r[Nxt(i, D)])),
             RAdd(RMul(R(m.q), RMul(r[i], r[i])), R(m.b)))]

cond_score_model_apply(m, r, D, id) ==
    [i \in 1..D |-> RAdd(score_model_apply(m, r, D)[i], R(m.t * id))]

\* d f_i / d x_j at the row r
dscore(m, r, D, i, j) ==
    RAdd(IF j = i THEN RAdd(R(m.w), RMul(R(2 * m.q), r[i])) ELSE R(0),
         IF j = Nxt(i, D) THEN R(m.v) ELSE R(0))

\* batches x of shape (B, D)
Batch(B, D, s) ==
    [B |-> B, D |-> D,
     v |-> [k \in 1..B |-> [i \in 1..D |-> R(((s + 2 * k + 3 * i) % 5) - 2)]]]


\* what torch.randn_like(x) may return
NoiseDraws(B, D) ==
    {[k \in 1..B |-> [i \in 1..D |-> R(((s + k + 2 * i) % 3) - 1)]] : s \in 0..2}

\* what torch.randint(0, K, size=(B,)) may return
IdDraws(B, K) == [1..B -> 0..(K - 1)]

\* noise scales handed to dsm_loss: 2, 1/2, 0, -1
SigmaList == <<R(2), <<1, 2>>, R(0), R(-1)>>

RECURSIVE Pow2(_)
Pow2(n) == IF n = 0 THEN 1 ELSE 2 * Pow2(n - 1)

\* noise schedules handed to ncsm_loss: s0, s0/2, s0/4, ..., and the same
\* with one level replaced by 0 or by -1
Geometric(s0, K) == [p \in 1..K |-> Norm(s0, Pow2(p - 1))]

Schedules ==
    UNION {
        {Geometric(s0, K)} \cup
        {[Geometric(s0, K) EXCEPT ![p] = R(bad)] : p \in 1..K, bad \in {0, -1}}
        : s0 \in {1, 2}, K \in 1..MaxK }

---------------------------------------------------------------------------
(* jacobians.full_jacobian and jacobians.batched_jacobian *)

\* j[k][i][l][j] = d F(x)[k, i] / d x[l, j] for the batched map F(x) = f(x):
\* shape (B, D, B, D); f acts on each row alone, so the blocks k # l are zero
full_jacobian(m, X) ==
    [k \in 1..X.B |-> [i \in 1..X.D |-> [l \in 1..X.B |-> [j \in 1..X.D |->
        IF k = l THEN dscore(m, X.v[k], X.D, i, j) ELSE R(0)]]]]

\* j[k][i][j] = d f_i / d x_j at x[k]: shape (B, D, D)
batched_jacobian(m, X, n) ==
    [k \in 1..X.B |-> [i \in 1..X.D |-> [j \in 1..X.D |->
        dscore(m, X.v[k], X.D, i, j)]]]

---------------------------------------------------------------------------
(* losses.py *)

Ok(val, t) == [ok |-> TRUE, err |-> "none", val |-> val, tr |-> t]
Raise(e) == [ok |-> FALSE, err |-> e, val |-> R(0), tr |-> <<>>]

\* x.mean() over n entries; the mean of no entries is nan
mean(f, n) == RDiv(RSum(f, n), R(n))

\* (scores ** 2).sum(-1) of one row
SumSq(r, D) == RSum([i \in 1..D |-> RMul(r[i], r[i])], D)

\* _ism: (tr_jac + 0.5 * (scores ** 2).sum(-1)).mean()
ism(tr_jac, sc, B, D) ==
    mean([k \in 1..B |-> RAdd(tr_jac[k], RMul(Half, SumSq(sc[k], D)))], B)

\* the diagonal entries lines 18 and 29 read (positions 0 and 1 of the source)
DiagIdx == {1, 2}

\* an index beyond the axis raises IndexError
IndexRaises(D) == \E i \in DiagIdx : i > D

\* mutant: the second entry read off the diagonal, j[k, 1, k, 0]
ism_trace_OffDiagonal(j, k) == RAdd(j[k][1][k][1], j[k][2][k][1])

\* line 18: j[range(B), 0, range(B), 0] + j[range(B), 1, range(B), 1]
ism_trace(j, k) == RAdd(j[k][1][k][1], j[k][2][k][2])

\* line 29: j[range(B), 0, 0] + j[range(B), 1, 1]
ism_fast_trace(j, k) == RAdd(j[k][1][1], j[k][2][2])

ism_loss(m, X) ==
    IF IndexRaises(X.D) THEN Raise("IndexError")
    ELSE LET j == full_jacobian(m, X)
             t == [k \in 1..X.B |-> ism_trace(j, k)]
             sc == [k \in 1..X.B |-> score_model_apply(m, X.v[k], X.D)]
         IN  Ok(ism(t, sc, X.B, X.D), t)

ism_loss_fast(m, X) ==
    IF IndexRaises(X.D) THEN Raise("IndexError")
    ELSE LET j == batched_jacobian(m, X, 2)
             t == [k \in 1..X.B |-> ism_fast_trace(j, k)]
             sc == [k \in 1..X.B |-> score_model_apply(m, X.v[k], X.D)]
         IN  Ok(ism(t, sc, X.B, X.D), t)

\* 0.5 * ((scores - targets) ** 2).sum(dim=-1) of one row
HalfSqDist(sc, tg, D) == RMul(Half, SumSq([i \in 1..D |-> RSub(sc[i], tg[i])], D))

\* xn = x + noise * s, one row
Noised(r, e, s, D) == [i \in 1..D |-> RAdd(r[i], RMul(e[i], s))]

\* targets = w * (x - xn), one row
Targets(r, rn, w, D) == [i \in 1..D |-> RMul(w, RSub(r[i], rn[i]))]

\* sigma is a Python number: 1 / sigma ** 2 raises for sigma = 0
dsm_loss(m, X, s, e) ==
    IF PyDivRaises(RMul(s, s)) THEN Raise("ZeroDivisionError")
    ELSE LET w == RDiv(R(1), RMul(s, s))
             xn == [k \in 1..X.B |-> Noised(X.v[k], e[k], s, X.D)]
             losses == [k \in 1..X.B |->
                 HalfSqDist(score_model_apply(m, xn[k], X.D),
                            Targets(X.v[k], xn[k], w, X.D), X.D)]
         IN  Ok(mean(losses, X.B), <<>>)

\* mutant: the weight lambda(sigma) = sigma^2 left out
ncsm_loss_Unweighted(m, X, se, id, e) ==
    LET chosen_sigma == [k \in 1..X.B |-> se[id[k] + 1]]
        xn == [k \in 1..X.B |-> Noised(X.v[k], e[k], chosen_sigma[k], X.D)]
        losses == [k \in 1..X.B |->
            HalfSqDist(cond_score_model_apply(m, xn[k], X.D, id[k]),
                       Targets(X.v[k], xn[k],
                               RDiv(R(1), RMul(chosen_sigma[k], chosen_sigma[k])), X.D),
                       X.D)]
    IN  Ok(mean(losses, X.B), <<>>)

\* sigmae is a tensor: 1 / (chosen_sigma ** 2) is inf for a zero level
ncsm_loss(m, X, se, id, e) ==
    LET chosen_sigma == [k \in 1..X.B |-> se[id[k] + 1]]
        xn == [k \in 1..X.B |-> Noised(X.v[k], e[k], chosen_sigma[k], X.D)]
        losses == [k \in 1..X.B |->
            HalfSqDist(cond_score_model_apply(m, xn[k], X.D, id[k]),
                       Targets(X.v[k], xn[k],
                               RDiv(R(1), RMul(chosen_sigma[k], chosen_sigma[k])), X.D),
                       X.D)]
        lambd == [k \in 1..X.B |-> RMul(chosen_sigma[k], chosen_sigma[k])]
    IN  Ok(mean([k \in 1..X.B |-> RMul(losses[k], lambd[k])], X.B), <<>>)

Return(name, r) ==
    /\ fn' = name
    /\ lpc' = IF r.ok THEN "done" ELSE "error"
    /\ ret' = r.val /\ lerr' = r.err /\ tr' = r.tr
    /\ UNCHANGED <<score_model, x, ivars>>

CallIsmLoss ==
    /\ lpc = "ready"
    /\ Return("ism_loss", ism_loss(score_model, x))
    /\ UNCHANGED <<sigma, sigmae, noise, ids>>

CallIsmLossFast ==
    /\ lpc = "ready"
    /\ Return("ism_loss_fast", ism_loss_fast(score_model, x))
    /\ UNCHANGED <<sigma, sigmae, noise, ids>>

\* ISMLoss(enable_fast).forward(score_model, x)
CallISMLoss ==
    /\ lpc = "ready"
    /\ \E enable_fast \in BOOLEAN :
          IF enable_fast
            THEN Return("ISMLoss(enable_fast=True)", ism_loss_fast(score_model, x))
            ELSE Return("ISMLoss(enable_fast=False)", ism_loss(score_model, x))
    /\ UNCHANGED <<sigma, sigmae, noise, ids>>

CallDsmLoss ==
    /\ lpc = "ready"
    /\ \E p \in DOMAIN SigmaList, e \in NoiseDraws(x.B, x.D) :
          /\ sigma' = SigmaList[p] /\ noise' = e
          /\ Return("dsm_loss", dsm_loss(score_model, x, SigmaList[p], e))
    /\ UNCHANGED <<sigmae, ids>>

\* DSMLoss(sigma).forward(score_model, x)
CallDSMLoss ==
    /\ lpc = "ready"
    /\ \E p \in DOMAIN SigmaList, e \in NoiseDraws(x.B, x.D) :
          /\ sigma' = SigmaList[p] /\ noise' = e
          /\ Return("DSMLoss", dsm_loss(score_model, x, SigmaList[p], e))
    /\ UNCHANGED <<sigmae, ids>>

CallNcsmLoss ==
    /\ lpc = "ready"
    /\ \E se \in Schedules, e \in NoiseDraws(x.B, x.D) :
          \E id \in IdDraws(x.B, Len(se)) :
              /\ sigmae' = se /\ noise' = e /\ ids' = id
              /\ Return("ncsm_loss", ncsm_loss(score_model, x, se, id, e))
    /\ UNCHANGED sigma

\* NCSMLoss(sigmae).forward(score_model, x)
CallNCSMLoss ==
    /\ lpc = "ready"
    /\ \E se \in Schedules, e \in NoiseDraws(x.B, x.D) :
          \E id \in IdDraws(x.B, Len(se)) :
              /\ sigmae' = se /\ noise' = e /\ ids' = id
              /\ Return("NCSMLoss", ncsm_loss(score_model, x, se, id, e))
    /\ UNCHANGED sigma

NextL ==
    \/ CallDsmLoss \/ CallDSMLoss \/ CallNcsmLoss \/ CallNCSMLoss
    \/ CallIsmLoss \/ CallIsmLossFast \/ CallISMLoss

---------------------------------------------------------------------------
(* Specifications *)

\* a call integrate_scores_rect2d(scores, xlim, ylim, n_x, n_y, c) is about to
\* run; no loss is in use
InitIntegrate ==
    /\ scoresArg \in ScoreArgs
    /\ xlim \in Extents /\ ylim \in Extents
    /\ n_x \in 0..MaxN /\ n_y \in 0..MaxN
    /\ c \in {R(s) : s \in Seeds}
    /\ pc = "ready" /\ scores = <<>> /\ hx = R(0) /\ hy = R(0)
    /\ tx = <<>> /\ ty = <<>> /\ u = <<>> /\ ix = 0 /\ iy = 0 /\ err = "none"
    /\ writes = <<>> /\ reads = {} /\ hazard = FALSE
    /\ fn = "none" /\ score_model = [w |-> 0, v |-> 0, q |-> 0, b |-> 0, t |-> 0]
    /\ x = Batch(0, 1, 0) /\ sigma = R(0)
    /\ sigmae = <<>> /\ noise = <<>> /\ ids = <<>> /\ tr = <<>>
    /\ lpc = "idle" /\ ret = R(0) /\ lerr = "none"

\* a score model and a batch are at hand and no loss has been called yet; the
\* integrator is not in use
InitLoss ==
    /\ score_model \in ScoreModels
    /\ \E b \in 0..MaxB, d \in 1..MaxD, s \in 0..2 : x = Batch(MaxB - b, MaxD + 1 - d, s)
    /\ fn = "none" /\ sigma = R(0)
    /\ sigmae = <<>> /\ noise = <<>> /\ ids = <<>> /\ tr = <<>>
    /\ lpc = "ready" /\ ret = R(0) /\ lerr = "none"
    /\ scoresArg = [kind |-> "none", coef |-> <<>>]
    /\ xlim = <<0, 0>> /\ ylim = <<0, 0>> /\ n_x = 0 /\ n_y = 0 /\ c = R(0)
    /\ pc = "idle" /\ scores = <<>> /\ hx = R(0) /\ hy = R(0)
    /\ tx = <<>> /\ ty = <<>> /\ u = <<>> /\ ix = 0 /\ iy = 0 /\ err = "none"
    /\ writes = <<>> /\ reads = {} /\ hazard = FALSE

Init == InitIntegrate \/ InitLoss

Next == NextI \/ NextL

\* either a call of the integrator or a call of a loss
Spec == Init /\ [][Next]_vars

\* the integrator alone
SpecIntegrate == InitIntegrate /\ [][NextI]_vars

\* the losses alone
SpecLoss == InitLoss /\ [][NextL]_vars

---------------------------------------------------------------------------
(* Properties of integrate_scores_rect2d *)

\* the field the integrator works on: the tensor argument, or the score model
\* evaluated on the grid
V == IF is_tensor(scoresArg) THEN TensorField(scoresArg.coef, n_y, n_x)
     ELSE scores_rect2d(scoresArg.coef, xlim, ylim, n_x, n_y)

\* the trapezoidal estimate of the x component between (i, j) and (i, j + 1),
\* and of the y component between (i, j) and (i + 1, j)
IncX(i, j) ==
    RMul(RMul(Half, RAdd(V[i][j + 1][1], V[i][j][1])), Norm(xlim[2] - xlim[1], n_x - 1))
IncY(i, j) ==
    RMul(RMul(Half, RAdd(V[i + 1][j][2], V[i][j][2])), Norm(ylim[2] - ylim[1], n_y - 1))

\* the grid points
GridX(j) == RAdd(R(xlim[1]), RMul(R(j), Norm(xlim[2] - xlim[1], n_x - 1)))
GridY(i) == RAdd(R(ylim[1]), RMul(R(i), Norm(ylim[2] - ylim[1], n_y - 1)))

Returned == pc = "done"

\* C1: for n_x >= 2 and n_y >= 2 the call returns a grid u with u[0,0] = c,
\* u[0,ix] = u[0,ix-1] + 0.5*(V_x[0,ix] + V_x[0,ix-1])*hx along the bottom row
\* and u[iy,ix] = u[iy-1,ix] + 0.5*(V_y[iy,ix] + V_y[iy-1,ix])*hy up every
\* column.
C1_TrapezoidRecurrence ==
    /\ (n_x >= 2 /\ n_y >= 2) => pc # "error"
    /\ (Returned /\ n_x >= 2 /\ n_y >= 2) =>
          /\ u[0][0] = c
          /\ \A j \in 1..(n_x - 1) : u[0][j] = RAdd(u[0][j - 1], IncX(0, j - 1))
          /\ \A i \in 1..(n_y - 1) : \A j \in 0..(n_x - 1) :
                u[i][j] = RAdd(u[i - 1][j], IncY(i - 1, j))

C1_Witness ==
    /\ Returned /\ n_x = 3 /\ n_y = 3 /\ is_tensor(scoresArg)
    /\ u[2][2] # u[0][2] /\ u[0][2] # c

\* the field is the gradient (2x, 2y) of x^2 + y^2 at every grid point and
\* the constant is the potential at the first corner
IsGradientOfSquares ==
    /\ \A i \in 0..(n_y - 1) : \A j \in 0..(n_x - 1) :
          V[i][j] = <<RMul(R(2), GridX(j)), RMul(R(2), GridY(i))>>
    /\ c = R(xlim[1] * xlim[1] + ylim[1] * ylim[1])

\* C2: fed the gradient of U(x,y) = x^2 + y^2 and c = U(x0,y0), the integrator
\* returns U at every grid point.
C2_RoundTrip ==
    (Returned /\ IsGradientOfSquares) =>
        \A i \in 0..(n_y - 1) : \A j \in 0..(n_x - 1) :
            u[i][j] = RAdd(RMul(GridX(j), GridX(j)), RMul(GridY(i), GridY(i)))

C2_Witness ==
    /\ Returned /\ IsGradientOfSquares
    /\ n_x = 3 /\ n_y = 2 /\ xlim = <<-1, 1>> /\ ylim = <<-1, 1>> /\ c = R(2)
    /\ u[1][2] = R(2) /\ u[0][1] = R(1)

\* C6: a call with n_x < 2 or n_y < 2 fails and returns no grid; otherwise
\* hx = (xlim[1]-xlim[0])/(n_x-1) and hy = (ylim[1]-ylim[0])/(n_y-1).
C6_GridSizeRequired ==
    /\ ((n_x < 2 \/ n_y < 2) /\ pc \notin {"idle", "ready"}) =>
          (pc = "error" /\ u = <<>>)
    /\ (pc \in {"loop", "row", "done"} /\ n_x >= 2 /\ n_y >= 2) =>
          /\ RMul(hx, R(n_x - 1)) = R(xlim[2] - xlim[1])
          /\ RMul(hy, R(n_y - 1)) = R(ylim[2] - ylim[1])

C6_Witness ==
    /\ pc = "error" /\ err = "ZeroDivisionError"
    /\ n_x = 1 /\ n_y = 3 /\ ~is_tensor(scoresArg)

\* the trapezoidal increments around every grid cell sum to zero
Conservative ==
    \A i \in 0..(n_y - 2) : \A j \in 0..(n_x - 2) :
        RAdd(IncX(i, j), IncY(i, j + 1)) = RAdd(IncY(i, j), IncX(i + 1, j))

RECURSIVE ColsFirst(_, _)
\* the reversed walk: up the first column, then along every row
ColsFirst(i, j) ==
    IF j > 0 THEN RAdd(ColsFirst(i, j - 1), IncX(i, j - 1))
    ELSE IF i > 0 THEN RAdd(ColsFirst(i - 1, 0), IncY(i - 1, 0))
    ELSE c

\* C9: on a conservative field the rows-first walk of the code and the
\* columns-first walk from the same seed give the same value at every grid
\* point.
C9_PathIndependent ==
    (Returned /\ Conservative) =>
        \A i \in 0..(n_y - 1) : \A j \in 0..(n_x - 1) : u[i][j] = ColsFirst(i, j)

C9_Witness ==
    /\ Returned /\ Conservative /\ n_x = 3 /\ n_y = 3
    /\ scoresArg = [kind |-> "model", coef |-> <<0, 2, 1, 0, 0, 1, 2, 0>>]
    /\ u[2][2] # u[0][2] /\ u[2][2] # u[2][0]

\* C9, second half: on a field that is not conservative the two walks can
\* differ (a state to reach, not an invariant)
C9_WalksDiffer ==
    /\ Returned /\ ~Conservative
    /\ \E i \in 0..(n_y - 1) : \E j \in 0..(n_x - 1) : u[i][j] # ColsFirst(i, j)

RECURSIVE BottomRow(_)
\* the two-phase order: the whole bottom row first ...
BottomRow(j) == IF j = 0 THEN c ELSE RAdd(tx[0][j - 1], BottomRow(j - 1))

RECURSIVE TwoPhase(_, _)
\* ... then every column
TwoPhase(i, j) == IF i = 0 THEN BottomRow(j) ELSE RAdd(ty[i - 1][j], TwoPhase(i - 1, j))

\* C10: every cell is written at most once while the loop runs and exactly
\* once when it has finished, a cell is read only after its write and is
\* never written after it was read, and the returned grid is the one the
\* two-phase order yields.
C10_LoopOrder ==
    /\ pc \in {"loop", "row", "done"} =>
          /\ \A i \in 0..(n_y - 1) : \A j \in 0..(n_x - 1) : writes[i][j] <= 1
          /\ ~hazard
    /\ Returned =>
          /\ \A i \in 0..(n_y - 1) : \A j \in 0..(n_x - 1) :
                writes[i][j] = 1 /\ u[i][j] = TwoPhase(i, j)

C10_Witness ==
    /\ Returned /\ n_x = 3 /\ n_y = 3
    /\ reads = {<<0, 0>>, <<1, 0>>, <<0, 1>>, <<1, 1>>, <<0, 2>>, <<1, 2>>}
    /\ u[2][1] # u[2][0]

---------------------------------------------------------------------------
(* Properties of the losses *)

IsmExact == {"ism_loss", "ISMLoss(enable_fast=False)"}
IsmFast == {"ism_loss_fast", "ISMLoss(enable_fast=True)"}
Dsm == {"dsm_loss", "DSMLoss"}
Ncsm == {"ncsm_loss", "NCSMLoss"}

\* trace(J_f(x[k])): the sum of all D diagonal entries
FullTrace(k) ==
    RSum([i \in 1..x.D |-> dscore(score_model, x.v[k], x.D, i, i)], x.D)

\* C3: for every D >= 1 the per-sample trace fed into the ISM loss is the
\* full Jacobian trace, the sum of d f_i / d x_i over all i in 0..D-1.
C3_FullJacobianTrace ==
    (fn \in IsmExact \cup IsmFast) =>
        /\ lpc = "done"
        /\ \A k \in 1..x.B : tr[k] = FullTrace(k)

IsPositive(a) == IsFinite(a) /\ a[1] > 0

\* C5: dsm_loss / DSMLoss with sigma <= 0, and ncsm_loss / NCSMLoss with a
\* schedule holding a level <= 0, fail; no loss is returned.
C5_NonPositiveSigmaRejected ==
    /\ (fn \in Dsm /\ ~IsPositive(sigma)) => lpc = "error"
    /\ (fn \in Ncsm /\ \E p \in 1..Len(sigmae) : ~IsPositive(sigmae[p])) =>
          lpc = "error"

\* C7: for a schedule of one level sigma > 0, the same batch and the same
\* noise, ncsm_loss is sigma^2 * dsm_loss of the unconditioned model, and
\* every sample draws level 0.
C7_OneLevelNcsmIsWeightedDsm ==
    (fn \in Ncsm /\ Len(sigmae) = 1 /\ IsPositive(sigmae[1])) =>
        LET d == dsm_loss(score_model, x, sigmae[1], noise)
        IN  /\ lpc = "done" /\ d.ok
            /\ \A k \in 1..x.B : ids[k] = 0
            /\ ret = RMul(RMul(sigmae[1], sigmae[1]), d.val)

C7_Witness ==
    /\ fn = "ncsm_loss" /\ lpc = "done" /\ sigmae = <<R(2)>>
    /\ x.B = 2 /\ x.D = 2 /\ score_model.t # 0
    /\ IsFinite(ret) /\ ret # R(0)
    /\ ret # dsm_loss(score_model, x, sigmae[1], noise).val

\* C8: a loss called with a batch of B = 0 rows fails instead of returning
\* the mean over no samples.
C8_EmptyBatchRejected ==
    (x.B = 0 /\ fn # "none") => lpc = "error"

=============================================================================
